---- MODULE Spec2Model ----
(***************************************************************************)
(* Model of src/src/process_unique_id.rs: the process-wide counter         *)
(* GLOBAL_COUNTER, the claim loop next_global(), the thread-local block    *)
(* NEXT_LOCAL_UNIQUE_ID, ProcessUniqueId::new() and the Display rendering. *)
(*                                                                         *)
(* Threads interleave at the accesses to the shared atomic (the load and   *)
(* each compare_exchange); everything else a thread does is thread-local.  *)
(* usize and u64 are modelled with scaled-down widths: USIZE_MAX stands    *)
(* for usize::MAX and U64_MAX for u64::MAX, arithmetic wraps at the width. *)
(* A failed assert! is a panic: the call unwinds without returning, the    *)
(* thread-local block is left as it was, and the thread may call again.    *)
(***************************************************************************)
EXTENDS Integers, Sequences, FiniteSets, TLC

\* ---------------------------------------------------------------- bounds
NumThreads == 2
MaxCalls == 6
USIZE_MAX == 3
U64_MAX == 2
MaxFmt == 260
MaxCmp == 3

Threads == 1..NumThreads

VARIABLES
    GLOBAL_COUNTER,   \* the AtomicUsize
    tls_init,         \* per thread: has NEXT_LOCAL_UNIQUE_ID been initialised
    block,            \* per thread: the value in NEXT_LOCAL_UNIQUE_ID
    pc,               \* per thread: position inside new() / next_global()
    ctx,              \* per thread: who called next_global ("init" or "roll")
    prev,             \* per thread: next_global's local `prev`
    next_unique_id,   \* per thread: new()'s local `next_unique_id`
    calls,            \* history, per thread: one record per finished call
    claims,           \* history: the successful claims in CAS order
    fmt_id,           \* Display: the identifier being rendered
    fmt_out,          \* Display: the text written (<<>> before fmt runs)
    cmp_a,            \* comparison: the left operand
    cmp_b,            \* comparison: the right operand
    cmp_out           \* comparison: what <, ==, > and cmp gave (ord "none" before)

vars == <<GLOBAL_COUNTER, tls_init, block, pc, ctx, prev, next_unique_id,
          calls, claims, fmt_id, fmt_out, cmp_a, cmp_b, cmp_out>>

cmpVars == <<cmp_a, cmp_b, cmp_out>>

genVars == <<GLOBAL_COUNTER, tls_init, block, pc, ctx, prev, next_unique_id,
             calls, claims>>

\* ------------------------------------------------------ ProcessUniqueId
\* struct ProcessUniqueId { prefix: usize, offset: u64 }
ProcessUniqueId(p, o) == [prefix |-> p, offset |-> o]

\* derive(PartialOrd, Ord): lexicographic in field order
Less_OffsetFirst(a, b) ==
    \/ a.offset < b.offset
    \/ a.offset = b.offset /\ a.prefix < b.prefix
Less(a, b) ==
    \/ a.prefix < b.prefix
    \/ a.prefix = b.prefix /\ a.offset < b.offset

\* derive(PartialEq, Eq): both fields equal
Eq(a, b) == a.prefix = b.prefix /\ a.offset = b.offset

\* derive(Ord)::cmp: the first field that differs decides
Cmp(a, b) ==
    IF a.prefix < b.prefix THEN "Less"
    ELSE IF a.prefix > b.prefix THEN "Greater"
    ELSE IF a.offset < b.offset THEN "Less"
    ELSE IF a.offset > b.offset THEN "Greater"
    ELSE "Equal"

\* ---------------------------------------------------------- next_global
\* assert!(prev < usize::MAX, ...)
AssertOk_NoAssert(p) == TRUE
AssertOk_Early(p) == p < USIZE_MAX - 1
AssertOk(p) == p < USIZE_MAX

\* compare_exchange(prev, ..) takes effect exactly when the counter holds prev
CasSucceeds_Blind(cur, p) == TRUE
CasSucceeds(cur, p) == cur = p

\* the new value handed to compare_exchange: prev + 1 (usize arithmetic)
CasNew_NoIncrement(p) == p
CasNew_PlusTwo(p) == (p + 2) % (USIZE_MAX + 1)
CasNew(p) == (p + 1) % (USIZE_MAX + 1)

\* the value carried into the next iteration after a failed exchange
RetryPrev_Stale(p, seen) == p
RetryPrev_PlusOne(p, seen) == (seen + 1) % (USIZE_MAX + 1)
RetryPrev(p, seen) == seen

\* -------------------------------------------------- ProcessUniqueId::new
\* next_unique_id.offset == u64::MAX
Exhausted_OneEarly(id) == id.offset >= U64_MAX - 1
Exhausted(id) == id.offset = U64_MAX

\* ProcessUniqueId { prefix: next_global(), offset: 0 }
Fresh(p) == ProcessUniqueId(p, 0)

\* the block written on rollover, given the old block and the claimed prefix
Rollover_KeepPrefix(old, p) == ProcessUniqueId(old.prefix, 0)
Rollover(old, p) == Fresh(p)

\* ProcessUniqueId { prefix: next_unique_id.prefix, offset: next_unique_id.offset + 1 }
Advance_Stuck(id) == id
Advance(id) == ProcessUniqueId(id.prefix, (id.offset + 1) % (U64_MAX + 1))

\* the closure's result: the value read before the block was rewritten
Result_NewBlock(saved, written) == written
Result(saved, written) == saved

\* ------------------------------------------------------------ fmt::Display
\* text is modelled as a sequence of one-character strings
\* {:x}: the digits of lowercase hexadecimal
HexDigit(d) ==
    <<"0", "1", "2", "3", "4", "5", "6", "7",
      "8", "9", "a", "b", "c", "d", "e", "f">>[d + 1]

DecDigit(d) == <<"0", "1", "2", "3", "4", "5", "6", "7", "8", "9">>[d + 1]

\* {} instead of {:x}: decimal
RECURSIVE LowerHex_Decimal(_)
LowerHex_Decimal(n) ==
    IF n < 10 THEN <<DecDigit(n)>>
    ELSE LowerHex_Decimal(n \div 10) \o <<DecDigit(n % 10)>>

\* {:x} of an unsigned integer: most significant digit first, no padding,
\* no "0x", a lone "0" for zero
RECURSIVE LowerHex(_)
LowerHex(n) ==
    IF n < 16 THEN <<HexDigit(n)>>
    ELSE LowerHex(n \div 16) \o <<HexDigit(n % 16)>>

\* write!(f, "puid-{:x}-{:x}", self.prefix, self.offset)
Display(id) ==
    <<"p", "u", "i", "d", "-">> \o LowerHex(id.prefix) \o <<"-">> \o LowerHex(id.offset)

\* ---------------------------------------------------------------- history
NoId == ProcessUniqueId(0, 0)

\* a finished call: ok = it returned `id`; ran = the closure body ran, on
\* block `pre`; claim = which claim it made; seen = the counter value the
\* failing assert looked at (when ~ok)
Returned(t_pre, t_id, c) ==
    [ok |-> TRUE, id |-> t_id, ran |-> TRUE, pre |-> t_pre, claim |-> c, seen |-> 0]

Panicked(t_ran, t_pre, c, s) ==
    [ok |-> FALSE, id |-> NoId, ran |-> t_ran, pre |-> t_pre, claim |-> c, seen |-> s]

NoCmp == [lt |-> FALSE, eq |-> FALSE, gt |-> FALSE, ord |-> "none"]

\* ------------------------------------------------------------------- Init
Init ==
    /\ GLOBAL_COUNTER = 0
    /\ tls_init = [t \in Threads |-> FALSE]
    /\ block = [t \in Threads |-> NoId]
    /\ pc = [t \in Threads |-> "idle"]
    /\ ctx = [t \in Threads |-> "none"]
    /\ prev = [t \in Threads |-> 0]
    /\ next_unique_id = [t \in Threads |-> NoId]
    /\ calls = [t \in Threads |-> <<>>]
    /\ claims = <<>>
    /\ fmt_id = NoId
    /\ fmt_out = <<>>
    /\ cmp_a = NoId
    /\ cmp_b = NoId
    /\ cmp_out = NoCmp

\* ---------------------------------------------------------------- actions
\* a thread calls ProcessUniqueId::new(): NEXT_LOCAL_UNIQUE_ID.with(..) runs
\* the lazy initialiser first when this thread has no block yet
New(t) ==
    /\ pc[t] = "idle"
    /\ Len(calls[t]) < MaxCalls
    /\ IF tls_init[t]
         THEN /\ pc' = [pc EXCEPT ![t] = "body"]
              /\ ctx' = ctx
         ELSE /\ pc' = [pc EXCEPT ![t] = "load"]
              /\ ctx' = [ctx EXCEPT ![t] = "init"]
    /\ UNCHANGED <<GLOBAL_COUNTER, tls_init, block, prev, next_unique_id,
                   calls, claims, fmt_id, fmt_out, cmpVars>>

\* the closure body: read the block, then either advance it and return, or
\* (offset == u64::MAX) go and claim a new prefix
Body(t) ==
    /\ pc[t] = "body"
    /\ IF Exhausted(block[t])
         THEN /\ next_unique_id' = [next_unique_id EXCEPT ![t] = block[t]]
              /\ pc' = [pc EXCEPT ![t] = "load"]
              /\ ctx' = [ctx EXCEPT ![t] = "roll"]
              /\ UNCHANGED <<block, calls>>
         ELSE /\ block' = [block EXCEPT ![t] = Advance(block[t])]
              /\ calls' = [calls EXCEPT ![t] =
                     Append(@, Returned(block[t],
                                        Result(block[t], Advance(block[t])),
                                        ctx[t]))]
              /\ pc' = [pc EXCEPT ![t] = "idle"]
              /\ ctx' = [ctx EXCEPT ![t] = "none"]
              /\ UNCHANGED next_unique_id
    /\ UNCHANGED <<GLOBAL_COUNTER, tls_init, prev, claims, fmt_id, fmt_out, cmpVars>>

\* let mut prev = GLOBAL_COUNTER.load(Relaxed)
Load(t) ==
    /\ pc[t] = "load"
    /\ prev' = [prev EXCEPT ![t] = GLOBAL_COUNTER]
    /\ pc' = [pc EXCEPT ![t] = "loop"]
    /\ UNCHANGED <<GLOBAL_COUNTER, tls_init, block, ctx, next_unique_id,
                   calls, claims, fmt_id, fmt_out, cmpVars>>

\* the assert at the top of the loop fails: panic, new() does not return
AssertFail(t) ==
    /\ pc[t] = "loop"
    /\ ~AssertOk(prev[t])
    /\ calls' = [calls EXCEPT ![t] =
           Append(@, Panicked(ctx[t] = "roll", next_unique_id[t], ctx[t], prev[t]))]
    /\ pc' = [pc EXCEPT ![t] = "idle"]
    /\ ctx' = [ctx EXCEPT ![t] = "none"]
    /\ prev' = [prev EXCEPT ![t] = 0]
    /\ next_unique_id' = [next_unique_id EXCEPT ![t] = NoId]
    /\ UNCHANGED <<GLOBAL_COUNTER, tls_init, block, claims, fmt_id, fmt_out, cmpVars>>

\* compare_exchange(prev, prev + 1) succeeds: next_global returns prev.
\* Called from the initialiser, the block becomes {prev, 0} and the closure
\* body runs next; called from the body, the block is replaced and new()
\* returns the value it read before.
CasOk(t) ==
    /\ pc[t] = "loop"
    /\ AssertOk(prev[t])
    /\ CasSucceeds(GLOBAL_COUNTER, prev[t])
    /\ GLOBAL_COUNTER' = CasNew(prev[t])
    /\ claims' = Append(claims, [thread |-> t, prefix |-> prev[t]])
    /\ IF ctx[t] = "init"
         THEN /\ block' = [block EXCEPT ![t] = Fresh(prev[t])]
              /\ tls_init' = [tls_init EXCEPT ![t] = TRUE]
              /\ pc' = [pc EXCEPT ![t] = "body"]
              /\ UNCHANGED <<ctx, calls, next_unique_id>>
         ELSE /\ block' = [block EXCEPT ![t] = Rollover(next_unique_id[t], prev[t])]
              /\ calls' = [calls EXCEPT ![t] =
                     Append(@, Returned(next_unique_id[t],
                                        Result(next_unique_id[t],
                                               Rollover(next_unique_id[t], prev[t])),
                                        ctx[t]))]
              /\ pc' = [pc EXCEPT ![t] = "idle"]
              /\ ctx' = [ctx EXCEPT ![t] = "none"]
              /\ next_unique_id' = [next_unique_id EXCEPT ![t] = NoId]
              /\ UNCHANGED tls_init
    /\ prev' = [prev EXCEPT ![t] = 0]
    /\ UNCHANGED <<fmt_id, fmt_out, cmpVars>>

\* compare_exchange fails (the counter is no longer prev): Err(value) carries
\* the current counter value into prev and the loop goes round again
CasFail(t) ==
    /\ pc[t] = "loop"
    /\ AssertOk(prev[t])
    /\ ~CasSucceeds(GLOBAL_COUNTER, prev[t])
    /\ prev' = [prev EXCEPT ![t] = RetryPrev(prev[t], GLOBAL_COUNTER)]
    /\ UNCHANGED <<GLOBAL_COUNTER, tls_init, block, pc, ctx, next_unique_id,
                   calls, claims, fmt_id, fmt_out, cmpVars>>

Next ==
    \/ \E t \in Threads : New(t)
    \/ \E t \in Threads : Body(t)
    \/ \E t \in Threads : Load(t)
    \/ \E t \in Threads : AssertFail(t)
    \/ \E t \in Threads : CasOk(t)
    \/ \E t \in Threads : CasFail(t)

Spec == Init /\ [][Next]_vars

\* the steps of a call of thread t that is under way
Running(t) == Body(t) \/ Load(t) \/ AssertFail(t) \/ CasOk(t) \/ CasFail(t)

\* every thread that is inside a call keeps being scheduled
FairSpec == Spec /\ \A t \in Threads : WF_vars(Running(t))

\* ------------------------------------------------------------- rendering
\* the identifiers handed to Display: any pair of field values up to MaxFmt
FmtInit ==
    /\ GLOBAL_COUNTER = 0
    /\ tls_init = [t \in Threads |-> FALSE]
    /\ block = [t \in Threads |-> NoId]
    /\ pc = [t \in Threads |-> "idle"]
    /\ ctx = [t \in Threads |-> "none"]
    /\ prev = [t \in Threads |-> 0]
    /\ next_unique_id = [t \in Threads |-> NoId]
    /\ calls = [t \in Threads |-> <<>>]
    /\ claims = <<>>
    /\ fmt_id \in {ProcessUniqueId(p, o) : p \in 0..MaxFmt, o \in 0..MaxFmt}
    /\ fmt_out = <<>>
    /\ cmp_a = NoId
    /\ cmp_b = NoId
    /\ cmp_out = NoCmp

\* <ProcessUniqueId as Display>::fmt
Fmt ==
    /\ fmt_out = <<>>
    /\ fmt_out' = Display(fmt_id)
    /\ UNCHANGED <<genVars, fmt_id, cmpVars>>

FmtNext == Fmt

FmtSpec == FmtInit /\ [][FmtNext]_vars

\* ------------------------------------------------------------- comparison
\* the identifiers compared: any two values with fields up to MaxCmp
CmpInit ==
    /\ GLOBAL_COUNTER = 0
    /\ tls_init = [t \in Threads |-> FALSE]
    /\ block = [t \in Threads |-> NoId]
    /\ pc = [t \in Threads |-> "idle"]
    /\ ctx = [t \in Threads |-> "none"]
    /\ prev = [t \in Threads |-> 0]
    /\ next_unique_id = [t \in Threads |-> NoId]
    /\ calls = [t \in Threads |-> <<>>]
    /\ claims = <<>>
    /\ fmt_id = NoId
    /\ fmt_out = <<>>
    /\ cmp_a \in {ProcessUniqueId(p, o) : p \in 0..MaxCmp, o \in 0..MaxCmp}
    /\ cmp_b \in {ProcessUniqueId(p, o) : p \in 0..MaxCmp, o \in 0..MaxCmp}
    /\ cmp_out = NoCmp

\* a < b, a == b, a > b and a.cmp(&b) with the derived implementations
Compare ==
    /\ cmp_out = NoCmp
    /\ cmp_out' = [lt |-> Less(cmp_a, cmp_b), eq |-> Eq(cmp_a, cmp_b),
                   gt |-> Less(cmp_b, cmp_a), ord |-> Cmp(cmp_a, cmp_b)]
    /\ UNCHANGED <<genVars, fmt_id, fmt_out, cmp_a, cmp_b>>

CmpNext == Compare

CmpSpec == CmpInit /\ [][CmpNext]_vars

\* ------------------------------------------------------ derived histories
\* the identifiers thread t's calls returned, in order
RECURSIVE Ids(_)
Ids(cs) ==
    IF cs = <<>> THEN <<>>
    ELSE IF Head(cs).ok THEN <<Head(cs).id>> \o Ids(Tail(cs))
    ELSE Ids(Tail(cs))

ReturnedIds(t) == Ids(calls[t])

\* the same identifiers as a set
ReturnedSet(t) == {calls[t][i].id : i \in {k \in 1..Len(calls[t]) : calls[t][k].ok}}

\* the prefix of thread t's latest successful claim (0 when it has none)
RECURSIVE LastClaimOf(_, _)
LastClaimOf(cl, t) ==
    IF cl = <<>> THEN 0
    ELSE IF cl[Len(cl)].thread = t THEN cl[Len(cl)].prefix
    ELSE LastClaimOf(SubSeq(cl, 1, Len(cl) - 1), t)

\* ------------------------------------------------------------------ claims

\* C1: under every interleaving of the threads' calls to new(), rollovers
\* included, no two calls that return give back the same (prefix, offset).
C1_NoDuplicateIds ==
    /\ \A t \in Threads : Cardinality(ReturnedSet(t)) = Len(ReturnedIds(t))
    /\ \A t \in Threads : \A u \in Threads :
           t < u => ReturnedSet(t) \cap ReturnedSet(u) = {}

\* every thread has got identifiers from its first block, and one of them
\* has gone on into a second block
C1_Witness ==
    /\ \A t \in Threads : Len(ReturnedIds(t)) >= U64_MAX
    /\ \E t \in Threads :
           /\ Len(ReturnedIds(t)) >= U64_MAX + 2
           /\ ReturnedIds(t)[U64_MAX + 2].prefix # ReturnedIds(t)[1].prefix

\* C2: every prefix is handed out by at most one successful claim; a
\* thread's block carries the prefix of that thread's latest claim, so no
\* two blocks (of different threads, or of one thread before and after a
\* rollover) hold the same prefix, and the first identifiers of different
\* threads have different prefixes.
C2_PrefixClaimedOnce ==
    /\ \A i \in 1..Len(claims) : \A j \in 1..Len(claims) :
           i # j => claims[i].prefix # claims[j].prefix
    /\ \A t \in Threads :
           tls_init[t] => block[t].prefix = LastClaimOf(claims, t)
    /\ \A t \in Threads : \A u \in Threads :
           (t # u /\ tls_init[t] /\ tls_init[u]) => block[t].prefix # block[u].prefix
    /\ LET ids == [t \in Threads |-> ReturnedIds(t)]
       IN  \A t \in Threads : \A u \in Threads :
               (t # u /\ ids[t] # <<>> /\ ids[u] # <<>>)
                   => ids[t][1].prefix # ids[u][1].prefix

\* every thread has its first identifier and one of them has rolled over
C2_Witness ==
    /\ \A t \in Threads : ReturnedIds(t) # <<>>
    /\ Len(claims) > NumThreads
    /\ \E i \in 1..Len(claims) : \E j \in 1..Len(claims) :
           i < j /\ claims[i].thread = claims[j].thread

\* C3: the first N identifiers a thread gets, for N within the offset
\* range, have offsets 0, 1, ..., N-1 in order and all the same prefix.
C3_FirstIdsCountFromZero ==
    \A t \in Threads :
        LET ids == ReturnedIds(t)
        IN  \A i \in 1..Len(ids) :
                i <= U64_MAX + 1 =>
                    /\ ids[i].offset = i - 1
                    /\ ids[i].prefix = ids[1].prefix

\* a thread has used its whole first block while another thread, which
\* claimed its prefix first, is still in the middle of its own
C3_Witness ==
    \E t \in Threads : \E u \in Threads :
        /\ t # u
        /\ Len(ReturnedIds(t)) = U64_MAX + 1
        /\ ReturnedIds(t)[1].prefix > 0
        /\ Len(ReturnedIds(u)) \in 1..U64_MAX

\* the calls of cs from position i on that start on a block (P, U64_MAX - K):
\* do positions i .. i+K return (P, U64_MAX-K) .. (P, U64_MAX), position
\* i+K+1 a fresh (Q, 0) with Q # P, and position i+K+2 that (Q, 1)?
\* With mayFail, the call due to return (P, U64_MAX) may instead have
\* panicked in its claim, on seeing the counter at USIZE_MAX, and nothing is
\* then said of the calls after it.
RolloverRun(cs, i, K, mayFail) ==
    LET P == cs[i].pre.prefix
        n == Len(cs)
        last == i + K
        returnedLast == last <= n /\ cs[last].ok
    IN  /\ \A j \in 0..(K - 1) :
               i + j <= n =>
                   cs[i + j].ok /\ cs[i + j].id = ProcessUniqueId(P, U64_MAX - K + j)
        /\ last <= n =>
               \/ cs[last].ok /\ cs[last].id = ProcessUniqueId(P, U64_MAX)
               \/ /\ mayFail
                  /\ ~cs[last].ok
                  /\ cs[last].claim = "roll"
                  /\ cs[last].seen = USIZE_MAX
        /\ (returnedLast \/ ~mayFail) =>
               /\ last + 1 <= n =>
                      /\ cs[last + 1].ok
                      /\ cs[last + 1].id.offset = 0
                      /\ cs[last + 1].id.prefix # P
               /\ last + 2 <= n =>
                      /\ cs[last + 2].ok
                      /\ cs[last + 2].id = ProcessUniqueId(cs[last + 1].id.prefix, 1)

\* C4 as stated: from a block (P, MAX-K) the next K+1 calls return
\* (P, MAX-K), ..., (P, MAX), the next one (Q, 0) with Q # P, the next (Q, 1).
C4_RolloverAlwaysReturns ==
    \A t \in Threads : \A i \in 1..Len(calls[t]) : \A K \in 0..U64_MAX :
        (calls[t][i].ran /\ calls[t][i].pre.offset = U64_MAX - K)
            => RolloverRun(calls[t], i, K, FALSE)

\* C4 amended: from a block (P, MAX-K) the next K calls return (P, MAX-K),
\* ..., (P, MAX-1) and the call after them returns (P, MAX), unless its
\* prefix claim finds the counter at its maximum, in which case that call
\* ends in the fatal condition; when (P, MAX) is returned, the next call
\* returns (Q, 0) with Q # P and the one after it (Q, 1).
C4_Rollover ==
    \A t \in Threads : \A i \in 1..Len(calls[t]) : \A K \in 0..U64_MAX :
        (calls[t][i].ran /\ calls[t][i].pre.offset = U64_MAX - K)
            => RolloverRun(calls[t], i, K, TRUE)

\* a thread went through a whole block from offset 0, rolled over and got
\* the first two identifiers of the new block
C4_Witness ==
    \E t \in Threads : \E i \in 1..Len(calls[t]) :
        /\ calls[t][i].ran /\ calls[t][i].pre.offset = 0
        /\ i + U64_MAX + 2 <= Len(calls[t])
        /\ calls[t][i + U64_MAX].ok
        /\ calls[t][i + U64_MAX].claim = "roll"
        /\ calls[t][i + U64_MAX + 2].ok
        /\ calls[t][i + U64_MAX + 2].id.offset = 1

\* one step of the system, as C5 constrains it
C5_Step ==
    /\ GLOBAL_COUNTER' >= GLOBAL_COUNTER
    /\ GLOBAL_COUNTER = USIZE_MAX => GLOBAL_COUNTER' = USIZE_MAX
    /\ \A i \in 1..Len(claims') : \A j \in 1..Len(claims') :
           i < j => claims'[i].prefix # claims'[j].prefix
    /\ \A t \in Threads :
           (pc[t] \in {"load", "loop"} /\ GLOBAL_COUNTER = USIZE_MAX) =>
               /\ claims' = claims
               /\ block' [t] = block[t]
               /\ pc'[t] = "idle" =>
                      /\ Len(calls'[t]) = Len(calls[t]) + 1
                      /\ ~calls'[t][Len(calls'[t])].ok

\* C5: a claim attempted while the counter holds its maximum ends in the
\* fatal condition (it issues nothing); the counter never goes back from
\* the maximum, or from any value, to a smaller one; no prefix is issued
\* a second time.
C5_FatalExhaustion == [][C5_Step]_vars

\* a claim found the counter at its maximum and panicked, every prefix
\* below the maximum having been issued
C5_Witness ==
    /\ GLOBAL_COUNTER = USIZE_MAX
    /\ Len(claims) = USIZE_MAX
    /\ \E t \in Threads : \E i \in 1..Len(calls[t]) :
           ~calls[t][i].ok /\ calls[t][i].seen = USIZE_MAX

\* C6: a call ends in the fatal condition only when it made a prefix claim
\* (from the initialiser or on rollover) whose assert saw the counter at
\* its maximum, the counter then being at its maximum; so a call that needs
\* no claim, and a call finishing while the counter is below the maximum,
\* returns an identifier.
C6_OnlyExhaustionFails ==
    /\ \A t \in Threads : \A i \in 1..Len(calls[t]) :
           ~calls[t][i].ok =>
               /\ calls[t][i].claim \in {"init", "roll"}
               /\ calls[t][i].seen = USIZE_MAX
               /\ GLOBAL_COUNTER = USIZE_MAX
               /\ calls[t][i].ran => calls[t][i].pre.offset = U64_MAX
    /\ \A t \in Threads :
           (pc[t] = "loop" /\ ~AssertOk(prev[t])) => GLOBAL_COUNTER = USIZE_MAX

\* with the counter at its maximum one call failed in a rollover claim,
\* while a call that needed no claim returned
C6_Witness ==
    /\ \E t \in Threads : \E i \in 1..Len(calls[t]) :
           ~calls[t][i].ok /\ calls[t][i].claim = "roll"
    /\ \E t \in Threads :
           /\ calls[t] # <<>>
           /\ calls[t][Len(calls[t])].ok
           /\ calls[t][Len(calls[t])].claim = "none"
           /\ calls[t][Len(calls[t])].id.prefix = USIZE_MAX - 1

\* C7: identifiers returned to one thread are strictly increasing, in the
\* prefix-then-offset order, in the order they were returned.
C7_SameThreadOrder ==
    \A t \in Threads :
        LET ids == ReturnedIds(t)
        IN  \A i \in 1..Len(ids) : \A j \in 1..Len(ids) :
                i < j => Less(ids[i], ids[j])

\* a thread got identifiers from two blocks of its own, between whose
\* claims another thread claimed a prefix
C7_Witness ==
    \E t \in Threads :
        \E i \in 1..Len(ReturnedIds(t)) : \E j \in 1..Len(ReturnedIds(t)) :
            /\ i < j
            /\ ReturnedIds(t)[j].prefix > ReturnedIds(t)[i].prefix + 1
            /\ ReturnedIds(t)[j].offset < ReturnedIds(t)[i].offset

\* C8: the prefixes of the successful claims increase strictly in the order
\* in which their compare-and-swaps took effect.
C8_ClaimOrder ==
    \A i \in 1..Len(claims) : \A j \in 1..Len(claims) :
        i < j => claims[i].prefix < claims[j].prefix

\* claims of two threads alternate, one thread having claimed twice
C8_Witness ==
    \E i \in 1..Len(claims) : \E j \in 1..Len(claims) : \E k \in 1..Len(claims) :
        /\ i < j /\ j < k
        /\ claims[i].thread = claims[k].thread
        /\ claims[i].thread # claims[j].thread

\* C9: under fair scheduling of the threads that are inside a call, every
\* call that has started finishes, by returning or by the fatal condition.
C9_CallsTerminate ==
    \A t \in Threads : (pc[t] # "idle") ~> (pc[t] = "idle")

\* a thread is in the retry loop holding a stale counter value: its next
\* compare-and-swap fails
C9_Witness ==
    \E t \in Threads :
        /\ pc[t] = "loop"
        /\ AssertOk(prev[t])
        /\ prev[t] # GLOBAL_COUNTER

\* the value of one lowercase hexadecimal digit character
HexDigitValue(c) ==
    CASE c = "0" -> 0 [] c = "1" -> 1 [] c = "2" -> 2 [] c = "3" -> 3
      [] c = "4" -> 4 [] c = "5" -> 5 [] c = "6" -> 6 [] c = "7" -> 7
      [] c = "8" -> 8 [] c = "9" -> 9 [] c = "a" -> 10 [] c = "b" -> 11
      [] c = "c" -> 12 [] c = "d" -> 13 [] c = "e" -> 14 [] c = "f" -> 15

LowerHexChars ==
    {"0", "1", "2", "3", "4", "5", "6", "7", "8", "9", "a", "b", "c", "d", "e", "f"}

\* a non-empty run of lowercase hexadecimal digits without padding
IsPlainHex(h) ==
    /\ Len(h) >= 1
    /\ \A i \in 1..Len(h) : h[i] \in LowerHexChars
    /\ Len(h) > 1 => h[1] # "0"

\* the number a run of hexadecimal digits denotes
RECURSIVE HexValue(_)
HexValue(h) ==
    IF h = <<>> THEN 0
    ELSE 16 * HexValue(SubSeq(h, 1, Len(h) - 1)) + HexDigitValue(h[Len(h)])

\* C10: the text Display writes is "puid-", the prefix as unpadded lowercase
\* hexadecimal, "-", the offset as unpadded lowercase hexadecimal, and
\* nothing else; (0, 0) gives "puid-0-0" and (255, 16) gives "puid-ff-10".
C10_Rendering ==
    fmt_out # <<>> =>
        LET n == Len(fmt_out)
            dashes == {i \in 6..n : fmt_out[i] = "-"}
        IN  /\ n >= 8
            /\ SubSeq(fmt_out, 1, 5) = <<"p", "u", "i", "d", "-">>
            /\ Cardinality(dashes) = 1
            /\ LET d == CHOOSE i \in dashes : TRUE
                   h1 == SubSeq(fmt_out, 6, d - 1)
                   h2 == SubSeq(fmt_out, d + 1, n)
               IN  /\ IsPlainHex(h1)
                   /\ IsPlainHex(h2)
                   /\ HexValue(h1) = fmt_id.prefix
                   /\ HexValue(h2) = fmt_id.offset
            /\ fmt_id = ProcessUniqueId(0, 0) =>
                   fmt_out = <<"p", "u", "i", "d", "-", "0", "-", "0">>
            /\ fmt_id = ProcessUniqueId(255, 16) =>
                   fmt_out = <<"p", "u", "i", "d", "-", "f", "f", "-", "1", "0">>

\* the identifier (255, 16) has been rendered
C10_Witness ==
    /\ fmt_id = ProcessUniqueId(255, 16)
    /\ fmt_out # <<>>

\* the position of an identifier in the prefix-major enumeration of all
\* identifiers with fields up to MaxCmp
Rank(x) == x.prefix * (MaxCmp + 1) + x.offset

\* C11: of a < b, a == b, a > b exactly one holds; the order is the
\* lexicographic one, prefix first and offset second; a == b holds exactly
\* when both fields agree.
C11_TotalOrder ==
    cmp_out.ord # "none" =>
        /\ Cardinality({k \in {"lt", "eq", "gt"} : cmp_out[k]}) = 1
        /\ cmp_out.lt <=> Rank(cmp_a) < Rank(cmp_b)
        /\ cmp_out.gt <=> Rank(cmp_a) > Rank(cmp_b)
        /\ cmp_out.eq <=> (cmp_a.prefix = cmp_b.prefix /\ cmp_a.offset = cmp_b.offset)
        /\ cmp_out.ord = "Less" <=> cmp_out.lt
        /\ cmp_out.ord = "Greater" <=> cmp_out.gt
        /\ cmp_out.ord = "Equal" <=> cmp_out.eq

\* two identifiers whose fields disagree about the order were compared
C11_Witness ==
    /\ cmp_out.ord # "none"
    /\ cmp_a.prefix < cmp_b.prefix
    /\ cmp_a.offset > cmp_b.offset

\* C12 as stated: a request that finds the block at offset MAX returns the
\* new block's value (new_prefix, 0), and the next request returns offset 1.
C12_ReturnsNewBlock ==
    \A t \in Threads : \A i \in 1..Len(calls[t]) :
        (calls[t][i].ran /\ calls[t][i].pre.offset = U64_MAX /\ calls[t][i].ok) =>
            /\ calls[t][i].id.offset = 0
            /\ calls[t][i].id.prefix # calls[t][i].pre.prefix
            /\ i + 1 <= Len(calls[t]) =>
                   calls[t][i + 1].ok /\ calls[t][i + 1].id.offset = 1

\* C12 amended: a request that finds the block (P, MAX) claims a new prefix
\* Q, replaces the block with (Q, 0) and returns the value it found,
\* (P, MAX); the next request returns (Q, 0) and the one after it (Q, 1).
\* When the claim finds the counter at its maximum the request ends in the
\* fatal condition and the block stays (P, MAX).
C12_ReturnsOldBlock ==
    \A t \in Threads : \A i \in 1..Len(calls[t]) :
        LET c == calls[t][i]
            n == Len(calls[t])
            P == c.pre.prefix
        IN  (c.ran /\ c.pre.offset = U64_MAX) =>
                /\ c.claim = "roll"
                /\ c.ok =>
                       /\ c.id = ProcessUniqueId(P, U64_MAX)
                       /\ (i = n /\ pc[t] = "idle") =>
                              /\ block[t].offset = 0
                              /\ block[t].prefix # P
                              /\ block[t].prefix = LastClaimOf(claims, t)
                       /\ i + 1 <= n =>
                              /\ calls[t][i + 1].ok
                              /\ calls[t][i + 1].claim = "none"
                              /\ calls[t][i + 1].pre = calls[t][i + 1].id
                              /\ calls[t][i + 1].id.offset = 0
                              /\ calls[t][i + 1].id.prefix # P
                              /\ \E k \in 1..Len(claims) :
                                     /\ claims[k].thread = t
                                     /\ claims[k].prefix = calls[t][i + 1].id.prefix
                       /\ i + 2 <= n =>
                              /\ calls[t][i + 2].ok
                              /\ calls[t][i + 2].id =
                                     ProcessUniqueId(calls[t][i + 1].id.prefix, 1)
                /\ ~c.ok =>
                       /\ c.seen = USIZE_MAX
                       /\ (i = n /\ pc[t] = "idle") => block[t] = c.pre

\* a request found its block at offset MAX and returned, and the thread
\* made two more requests
C12_Witness ==
    \E t \in Threads : \E i \in 1..Len(calls[t]) :
        /\ calls[t][i].ran /\ calls[t][i].pre.offset = U64_MAX /\ calls[t][i].ok
        /\ i + 2 <= Len(calls[t])
        /\ calls[t][i + 2].ok

\* a thread whose next compare-and-swap would fail holds a value that
\* another thread's successful compare-and-swap has claimed since
StaleOnlyByOthersClaim ==
    \A t \in Threads :
        (pc[t] = "loop" /\ prev[t] < USIZE_MAX /\ GLOBAL_COUNTER # prev[t]) =>
            \E k \in 1..Len(claims) :
                /\ claims[k].prefix = prev[t]
                /\ claims[k].thread # t

\* C13: a compare-and-swap in the claim loop fails only when another
\* thread's compare-and-swap has succeeded since this thread read the
\* counter; and while threads are in the loop with the counter below its
\* maximum, a claim completes (the counter moves on).
C13_LockFree ==
    /\ []StaleOnlyByOthersClaim
    /\ \A n \in 0..(USIZE_MAX - 1) :
           ((\E t \in Threads : pc[t] = "loop") /\ GLOBAL_COUNTER = n)
               ~> (GLOBAL_COUNTER > n)

\* two threads are in the loop holding the same value, which one of them
\* will claim and the other will find stale
C13_Witness ==
    \E t \in Threads : \E u \in Threads :
        /\ t # u
        /\ pc[t] = "loop" /\ pc[u] = "loop"
        /\ prev[t] = GLOBAL_COUNTER /\ prev[u] = GLOBAL_COUNTER
        /\ GLOBAL_COUNTER < USIZE_MAX

\* the rollovers completed so far: the calls that claimed a prefix for a
\* block that was used up, and returned
Rollovers ==
    Cardinality({x \in Threads \X (1..MaxCalls) :
                    /\ x[2] <= Len(calls[x[1]])
                    /\ calls[x[1]][x[2]].ok
                    /\ calls[x[1]][x[2]].claim = "roll"})

\* C14 as stated: the counter equals the number of threads that have made
\* their first request plus the number of completed rollovers (a first
\* request still under way may or may not have been counted yet).
C14_CountsFirstRequests ==
    LET made == Cardinality({t \in Threads : calls[t] # <<>>})
        begun == Cardinality({t \in Threads : calls[t] # <<>> \/ pc[t] # "idle"})
    IN  /\ made + Rollovers <= GLOBAL_COUNTER
        /\ GLOBAL_COUNTER <= begun + Rollovers

\* the counter counts the blocks created: one per thread whose first
\* request claimed a prefix, one per completed rollover
CounterAccounts ==
    /\ GLOBAL_COUNTER =
           Cardinality({t \in Threads : tls_init[t]}) + Rollovers
    /\ \A t \in Threads :
           (calls[t] = <<>> /\ pc[t] = "idle") =>
               /\ ~tls_init[t]
               /\ \A k \in 1..Len(claims) : claims[k].thread # t

\* C14 amended: the counter starts at 0, never decreases and changes only
\* by +1; it always equals the number of threads whose first request has
\* claimed a prefix plus the number of completed rollovers (a first request
\* that ends in the fatal condition does not advance it); a thread that
\* never requests an identifier never advances it.
C14_CounterAccounting ==
    /\ GLOBAL_COUNTER = 0
    /\ CounterAccounts
    /\ [][/\ GLOBAL_COUNTER' \in {GLOBAL_COUNTER, GLOBAL_COUNTER + 1}
          /\ CounterAccounts']_vars

\* one thread has not asked for anything while another has claimed on its
\* first request and again on a rollover
C14_Witness ==
    /\ \E t \in Threads : calls[t] = <<>> /\ pc[t] = "idle"
    /\ Rollovers >= 1
    /\ GLOBAL_COUNTER = 2

\* thread t takes this step
Acts(t) == pc'[t] # pc[t] \/ prev'[t] # prev[t]

\* C15: a step of a call to new() on a thread whose block exists with its
\* offset below the maximum leaves the process-wide counter as it is, and
\* no step of one thread's call changes another thread's block.
C15_Frame ==
    [][\A t \in Threads :
           Acts(t) =>
               /\ \A u \in Threads \ {t} :
                      /\ block'[u] = block[u]
                      /\ tls_init'[u] = tls_init[u]
                      /\ calls'[u] = calls[u]
               /\ (tls_init[t] /\ block[t].offset < U64_MAX) =>
                      /\ GLOBAL_COUNTER' = GLOBAL_COUNTER
                      /\ claims' = claims]_vars

\* a thread has finished an ordinary request, its block having existed
\* with offset below the maximum, while another thread is inside a claim
C15_Witness ==
    \E t \in Threads : \E u \in Threads :
        /\ t # u
        /\ pc[t] = "idle"
        /\ Len(calls[t]) >= 2
        /\ calls[t][Len(calls[t])].ok
        /\ calls[t][Len(calls[t])].claim = "none"
        /\ pc[u] = "loop"
        /\ GLOBAL_COUNTER = 1

\* the prefixes that successful claims have handed out
Issued == {claims[k].prefix : k \in 1..Len(claims)}

\* some call has ended in the fatal condition
SomeCallFailed ==
    \E t \in Threads : \E i \in 1..Len(calls[t]) : ~calls[t][i].ok

\* C16 as stated: once a claim has failed fatally, every value from 0 up to
\* and including the maximum has been issued as a prefix.
C16_WholeSpaceIssued ==
    SomeCallFailed => Issued = 0..USIZE_MAX

\* C16 amended: once a claim has failed fatally, every value from 0 up to
\* but not including the maximum has been issued as a prefix; the maximum
\* itself is never issued.
C16_AllButMaxIssued ==
    /\ SomeCallFailed => Issued = 0..(USIZE_MAX - 1)
    /\ USIZE_MAX \notin Issued
    /\ \A t \in Threads : tls_init[t] => block[t].prefix < USIZE_MAX

\* a thread's first request has failed fatally, every prefix below the
\* maximum having been issued
C16_Witness ==
    /\ \E t \in Threads : \E i \in 1..Len(calls[t]) :
           ~calls[t][i].ok /\ calls[t][i].claim = "init"
    /\ Cardinality(Issued) = USIZE_MAX

\* the k-th successful claim received k-1, the counter value it replaced,
\* so the prefixes issued are exactly those below the counter
DenseFromZero ==
    /\ \A k \in 1..Len(claims) : claims[k].prefix = k - 1
    /\ Issued = 0..(GLOBAL_COUNTER - 1)
    /\ Len(claims) = GLOBAL_COUNTER

\* C17 as stated: the prefixes issued are exactly 0 .. counter-1 and the
\* very first identifier generated in the process is (0, 0): as soon as
\* any identifier has been returned, (0, 0) has been.
C17_FirstIdIsZeroZero ==
    /\ DenseFromZero
    /\ (\E t \in Threads : ReturnedSet(t) # {}) =>
           (\E t \in Threads : ProcessUniqueId(0, 0) \in ReturnedSet(t))

\* C17 amended: the prefixes issued are exactly 0 .. counter-1; the first
\* successful claim receives prefix 0, and (0, 0) is the first identifier
\* returned to the thread that made that claim, and to no other thread.
C17_DensePrefixes ==
    /\ DenseFromZero
    /\ \A t \in Threads :
           /\ (claims # <<>> /\ claims[1].thread = t /\ ReturnedIds(t) # <<>>) =>
                  ReturnedIds(t)[1] = ProcessUniqueId(0, 0)
           /\ ProcessUniqueId(0, 0) \in ReturnedSet(t) =>
                  /\ claims[1].thread = t
                  /\ \A i \in 2..Len(ReturnedIds(t)) :
                         ReturnedIds(t)[i] # ProcessUniqueId(0, 0)

\* the thread that claimed prefix 0 has returned (0, 0) after another
\* thread returned an identifier of a later prefix
C17_Witness ==
    \E t \in Threads : \E u \in Threads :
        /\ t # u
        /\ claims # <<>> /\ claims[1].thread = t
        /\ Len(ReturnedIds(t)) = 1
        /\ Len(ReturnedIds(u)) >= 2

\* C18: the new prefix is claimed by the call that is to return the
\* identifier with offset MAX, before it returns. With the block at (P, MAX)
\* and the counter at its maximum that call cannot claim: it ends in the
\* fatal condition, (P, MAX) is never returned, the counter and the block
\* stay as they are, and every later call on the thread ends the same way.
C18_EagerClaim ==
    \A t \in Threads :
        /\ \A i \in 1..Len(calls[t]) :
               LET c == calls[t][i]
               IN  /\ (c.ok /\ c.id.offset = U64_MAX) =>
                          /\ c.claim = "roll"
                          /\ Cardinality({k \in 1..Len(claims) : claims[k].thread = t})
                                 >= 1 + Cardinality({j \in 1..i :
                                            calls[t][j].ok /\ calls[t][j].claim = "roll"})
                   /\ (~c.ok /\ c.claim = "roll") =>
                          /\ c.pre.offset = U64_MAX
                          /\ c.seen = USIZE_MAX
                          /\ GLOBAL_COUNTER = USIZE_MAX
                          /\ block[t] = c.pre
                          /\ \A u \in Threads : c.pre \notin ReturnedSet(u)
                          /\ \A j \in (i + 1)..Len(calls[t]) :
                                 /\ ~calls[t][j].ok
                                 /\ calls[t][j].claim = "roll"
                                 /\ calls[t][j].pre = c.pre
        /\ (tls_init[t] /\ block[t].offset = U64_MAX /\ GLOBAL_COUNTER = USIZE_MAX) =>
               /\ ~ENABLED CasOk(t)
               /\ \A u \in Threads : block[t] \notin ReturnedSet(u)

\* a thread whose block is at offset MAX has failed twice in a row with the
\* counter at its maximum
C18_Witness ==
    \E t \in Threads : \E i \in 1..Len(calls[t]) :
        /\ i + 1 <= Len(calls[t])
        /\ ~calls[t][i].ok /\ calls[t][i].claim = "roll"
        /\ ~calls[t][i + 1].ok
        /\ block[t].offset = U64_MAX

\* an initialised block holds an identifier nobody has been given, with a
\* prefix that has been claimed
BlockIsUnissued ==
    \A t \in Threads :
        tls_init[t] =>
            /\ block[t].prefix < GLOBAL_COUNTER
            /\ \A u \in Threads : block[t] \notin ReturnedSet(u)

\* a call that returns gives back what the thread's block held, and the
\* block changes at no other moment
ReturnsTheBlock ==
    \A t \in Threads :
        LET n == Len(calls'[t])
            returns == n = Len(calls[t]) + 1 /\ calls'[t][n].ok
        IN  /\ returns => (tls_init[t] /\ calls'[t][n].id = block[t])
            /\ (tls_init[t] /\ block'[t] # block[t]) => returns

\* C19: in every reachable state each initialised thread's block holds an
\* identifier that no call on any thread has returned, its prefix is below
\* the counter, and it is the value the thread's next successful new()
\* returns.
C19_BlockInvariant ==
    /\ BlockIsUnissued
    /\ [][BlockIsUnissued' /\ ReturnsTheBlock]_vars

\* a thread has rolled over into a new block, whose first identifier is
\* still to be returned, while another thread holds a block of its own
C19_Witness ==
    \E t \in Threads : \E u \in Threads :
        /\ t # u
        /\ tls_init[t] /\ tls_init[u]
        /\ pc[t] = "idle"
        /\ calls[t] # <<>>
        /\ calls[t][Len(calls[t])].ok
        /\ calls[t][Len(calls[t])].claim = "roll"
        /\ block[t].offset = 0

====
